---- MODULE Spec2Model ----
(***************************************************************************)
(* Model of the webhook integrity and resilient-invocation layer of the   *)
(* XRPL.Sale SDK: RetryUtils.withRetry (src/src/utils/index.ts) and       *)
(* WebhooksService.verifySignature / safeCompare / parseWebhook /         *)
(* middleware (src/src/services/webhooks.ts).                              *)
(***************************************************************************)
EXTENDS Integers, Sequences, FiniteSets, TLC

VARIABLES
  \* ---- RetryUtils.withRetry: one activation record per call ----
  call,        \* [Calls -> locals of the async function: pc, arguments, i, lastError, outcome]
  timers,      \* [Calls -> due time of the pending setTimeout, or NoTimer]
  now,         \* the event loop's clock, in ms
  fnLog,       \* [Calls -> outcomes of fn's invocations so far, in order]
  attempts,    \* [Calls -> clock value at which each invocation of fn started]
  waits,       \* [Calls -> the setTimeout calls made: when and for how long]
  \* ---- WebhooksService ----
  webhookSecret,  \* the service's private webhookSecret field (Absent when not configured)
  verifyCall,     \* the latest direct call of verifySignature: arguments and outcome
  prevVerifyCall, \* the call before it, when the latest call was derived from it
  mwOptions,      \* the options captured by the middleware closure
  received,       \* the request as the middleware received it
  req,            \* the request object after the middleware ran
  res,            \* what was sent on the response object: (status, json) pairs
  nextCalls,      \* how many times next was called for the request
  trace,          \* the service operations the middleware performed, in order
  escaped,        \* the errors the handler let escape to the host
  parseCall       \* the latest direct call of parseWebhook: argument and outcome

retryVars == <<call, timers, now, fnLog, attempts, waits>>

verifyVars == <<verifyCall, prevVerifyCall>>

mwVars == <<mwOptions, received, req, res, nextCalls, trace, escaped>>

webhookVars == <<webhookSecret, verifyCall, prevVerifyCall,
                 mwOptions, received, req, res, nextCalls, trace, escaped,
                 parseCall>>

vars == <<call, timers, now, fnLog, attempts, waits,
          webhookSecret, verifyCall, prevVerifyCall,
          mwOptions, received, req, res, nextCalls, trace, escaped,
          parseCall>>

----------------------------------------------------------------------------
(* Bounds of the model *)

\* maxRetries is drawn from -1..MaxRetriesBound
MaxRetriesBound == 3
\* backoff is drawn from 1..MaxBackoff
MaxBackoff == 2
\* delay is drawn from {0, DefaultDelay, .., MaxDelayUnits * DefaultDelay}
MaxDelayUnits == 1

(* Program constants: the defaults of withRetry's parameters *)
DefaultMaxRetries == 3
DefaultDelay == 1000
DefaultBackoff == 2

Calls == {"A", "B"}
Values == {"v1", "v2"}
ErrorKinds == {"transient", "permanent"}

NoTimer == -1
Undefined == [t |-> "undefined"]

MaxRetriesChoices == -1 .. MaxRetriesBound
BackoffChoices == 1 .. MaxBackoff
DelayChoices == {k * DefaultDelay : k \in 0 .. MaxDelayUnits}

----------------------------------------------------------------------------
(* RetryUtils.withRetry *)

RECURSIVE Pow(_, _)
\* Math.pow on a non-negative integer exponent
Pow(b, e) == IF e = 0 THEN 1 ELSE b * Pow(b, e - 1)

\* The error object a failing invocation throws: a fresh object per throw,
\* identified by the ordinal of the invocation that threw it.
ErrorObject(kind, n) == [t |-> "error", kind |-> kind, id |-> n]

BackoffDelayLinear(delay, backoff, i) == delay * backoff * i

\* delay * Math.pow(backoff, i)
BackoffDelay(delay, backoff, i) == delay * Pow(backoff, i)

LoopConditionStrict(i, maxRetries) == i < maxRetries

\* the for loop's condition, i <= maxRetries
LoopCondition(i, maxRetries) == i <= maxRetries

IsFinalAttemptNever(i, maxRetries) == FALSE

IsFinalAttemptEarly(i, maxRetries) == i + 1 >= maxRetries

\* if (i === maxRetries)
IsFinalAttempt(i, maxRetries) == i = maxRetries

IdleCall ==
  [pc |-> "idle", maxRetries |-> DefaultMaxRetries, delay |-> DefaultDelay,
   backoff |-> DefaultBackoff, i |-> 0, lastError |-> Undefined,
   outcome |-> Undefined]

\* fn() is invoked by call c: the attempt is in flight until fn settles
InvokeFn(c, locals) ==
  /\ call' = [call EXCEPT ![c] = [locals EXCEPT !.pc = "awaitFn"]]
  /\ attempts' = [attempts EXCEPT ![c] = Append(@, now)]

\* the function ends by throwing lastError (the promise rejects)
Throw(c, locals) ==
  call' = [call EXCEPT ![c] =
             [locals EXCEPT !.pc = "rejected",
                            !.outcome = [t |-> "rejected", error |-> locals.lastError]]]

\* withRetry(fn, maxRetries, delay, backoff) is called: the body runs up to
\* its first await, i.e. the first fn() when the loop is entered at all.
Start(c, maxRetries, delay, backoff) ==
  /\ call[c].pc = "idle"
  /\ LET locals == [call[c] EXCEPT !.maxRetries = maxRetries, !.delay = delay,
                                   !.backoff = backoff, !.i = 0]
     IN IF LoopCondition(0, maxRetries)
        THEN InvokeFn(c, locals)
        ELSE /\ Throw(c, locals)
             /\ UNCHANGED attempts
  /\ UNCHANGED <<timers, now, fnLog, waits>>
  /\ UNCHANGED webhookVars

\* a loop that records the value but does not return on success
FnResolveNoReturn(c, v) ==
  /\ call[c].pc = "awaitFn"
  /\ fnLog' = [fnLog EXCEPT ![c] = Append(@, [t |-> "ok", value |-> v])]
  /\ IF IsFinalAttempt(call[c].i, call[c].maxRetries)
     THEN /\ call' = [call EXCEPT ![c].pc = "resolved",
                                  ![c].outcome = [t |-> "resolved", value |-> v]]
          /\ UNCHANGED attempts
     ELSE InvokeFn(c, [call[c] EXCEPT !.i = @ + 1])
  /\ UNCHANGED <<timers, now, waits>>
  /\ UNCHANGED webhookVars

\* the awaited fn() fulfils with v: return await fn()
FnResolve(c, v) ==
  /\ call[c].pc = "awaitFn"
  /\ fnLog' = [fnLog EXCEPT ![c] = Append(@, [t |-> "ok", value |-> v])]
  /\ call' = [call EXCEPT ![c].pc = "resolved",
                          ![c].outcome = [t |-> "resolved", value |-> v]]
  /\ UNCHANGED <<timers, now, attempts, waits>>
  /\ UNCHANGED webhookVars

\* a catch block that gives up at once on a permanent error
FnRejectClassifying(c, kind) ==
  /\ call[c].pc = "awaitFn"
  /\ LET e == ErrorObject(kind, Len(fnLog[c]) + 1)
         locals == [call[c] EXCEPT !.lastError = e]
     IN /\ fnLog' = [fnLog EXCEPT ![c] = Append(@, [t |-> "err", error |-> e])]
        /\ IF IsFinalAttempt(locals.i, locals.maxRetries) \/ kind = "permanent"
           THEN /\ Throw(c, locals)
                /\ UNCHANGED <<timers, waits>>
           ELSE LET ms == BackoffDelay(locals.delay, locals.backoff, locals.i)
                IN /\ call' = [call EXCEPT ![c] = [locals EXCEPT !.pc = "awaitTimer"]]
                   /\ timers' = [timers EXCEPT ![c] = now + ms]
                   /\ waits' = [waits EXCEPT ![c] = Append(@, [at |-> now, ms |-> ms])]
  /\ UNCHANGED <<now, attempts>>
  /\ UNCHANGED webhookVars

\* the awaited fn() rejects: the catch block
FnReject(c, kind) ==
  /\ call[c].pc = "awaitFn"
  /\ LET e == ErrorObject(kind, Len(fnLog[c]) + 1)
         locals == [call[c] EXCEPT !.lastError = e]
     IN /\ fnLog' = [fnLog EXCEPT ![c] = Append(@, [t |-> "err", error |-> e])]
        /\ IF IsFinalAttempt(locals.i, locals.maxRetries)
           THEN /\ Throw(c, locals)
                /\ UNCHANGED <<timers, waits>>
           ELSE LET ms == BackoffDelay(locals.delay, locals.backoff, locals.i)
                IN /\ call' = [call EXCEPT ![c] = [locals EXCEPT !.pc = "awaitTimer"]]
                   /\ timers' = [timers EXCEPT ![c] = now + ms]
                   /\ waits' = [waits EXCEPT ![c] = Append(@, [at |-> now, ms |-> ms])]
  /\ UNCHANGED <<now, attempts>>
  /\ UNCHANGED webhookVars

\* a loop whose attempt counter i is one variable shared by all calls
TimerFireSharedCounter(c) ==
  /\ call[c].pc = "awaitTimer"
  /\ timers[c] # NoTimer
  /\ now >= timers[c]
  /\ timers' = [timers EXCEPT ![c] = NoTimer]
  /\ LET shared == [d \in Calls |-> [call[d] EXCEPT !.i = call[c].i + 1]]
     IN IF LoopCondition(shared[c].i, shared[c].maxRetries)
        THEN /\ call' = [shared EXCEPT ![c].pc = "awaitFn"]
             /\ attempts' = [attempts EXCEPT ![c] = Append(@, now)]
        ELSE /\ call' = [shared EXCEPT ![c].pc = "rejected",
                                       ![c].outcome = [t |-> "rejected",
                                                       error |-> shared[c].lastError]]
             /\ UNCHANGED attempts
  /\ UNCHANGED <<now, fnLog, waits>>
  /\ UNCHANGED webhookVars

\* the backoff timer fires: resolve(), i++, loop condition, next fn()
TimerFire(c) ==
  /\ call[c].pc = "awaitTimer"
  /\ timers[c] # NoTimer
  /\ now >= timers[c]
  /\ timers' = [timers EXCEPT ![c] = NoTimer]
  /\ LET locals == [call[c] EXCEPT !.i = @ + 1]
     IN IF LoopCondition(locals.i, locals.maxRetries)
        THEN InvokeFn(c, locals)
        ELSE /\ Throw(c, locals)
             /\ UNCHANGED attempts
  /\ UNCHANGED <<now, fnLog, waits>>
  /\ UNCHANGED webhookVars

PendingDue == {timers[c] : c \in {d \in Calls : timers[d] # NoTimer}}

\* time passes up to the next pending timer's due time
AdvanceClock ==
  /\ \E due \in PendingDue :
       /\ due > now
       /\ \A other \in PendingDue : due <= other
       /\ now' = due
  /\ UNCHANGED <<call, timers, fnLog, attempts, waits>>
  /\ UNCHANGED webhookVars

----------------------------------------------------------------------------
(* Strings.  A string or Buffer is the sequence of its characters; secrets  *)
(* are opaque strings.                                                      *)

\* JavaScript's undefined where a secret string is expected
Absent == "undefined"

\* !x for a secret: undefined and the empty string are falsy
Falsy(x) == x = Absent \/ x = ""

HexDigits == <<"0", "1", "2", "3", "4", "5", "6", "7", "8", "9",
               "a", "b", "c", "d", "e", "f">>

\* String.prototype.charCodeAt for the characters signatures are made of
CharCode ==
  "0" :> 48 @@ "1" :> 49 @@ "2" :> 50 @@ "3" :> 51 @@ "4" :> 52 @@
  "5" :> 53 @@ "6" :> 54 @@ "7" :> 55 @@ "8" :> 56 @@ "9" :> 57 @@
  "=" :> 61 @@ "A" :> 65 @@
  "a" :> 97 @@ "b" :> 98 @@ "c" :> 99 @@ "d" :> 100 @@ "e" :> 101 @@
  "f" :> 102 @@ "h" :> 104 @@ "s" :> 115 @@ "x" :> 120

\* s.charCodeAt(i), i counted from 0
CharCodeAt(s, i) == CharCode[s[i + 1]]

RECURSIVE BitXor(_, _)
\* x ^ y on non-negative integers
BitXor(x, y) ==
  IF x = 0 /\ y = 0 THEN 0
  ELSE (((x % 2) + (y % 2)) % 2) + 2 * BitXor(x \div 2, y \div 2)

RECURSIVE BitOr(_, _)
\* x | y on non-negative integers
BitOr(x, y) ==
  IF x = 0 /\ y = 0 THEN 0
  ELSE (IF x % 2 = 1 \/ y % 2 = 1 THEN 1 ELSE 0) + 2 * BitOr(x \div 2, y \div 2)

----------------------------------------------------------------------------
(* Webhook payloads the model draws from *)

Quote == "\""

JsonString(chars) == <<Quote>> \o chars \o <<Quote>>

JsonMember(key, valueText) == JsonString(key) \o <<":">> \o valueText

RECURSIVE JoinComma(_)
JoinComma(texts) ==
  IF Len(texts) = 0 THEN <<>>
  ELSE IF Len(texts) = 1 THEN texts[1]
  ELSE texts[1] \o <<",">> \o JoinComma(Tail(texts))

JsonObject(members) == <<"{">> \o JoinComma(members) \o <<"}">>

\* the field names of WebhookEvent
IdKey == <<"i", "d">>
TypeKey == <<"t", "y", "p", "e">>
DataKey == <<"d", "a", "t", "a">>
TimestampKey == <<"t", "i", "m", "e", "s", "t", "a", "m", "p">>
VersionKey == <<"v", "e", "r", "s", "i", "o", "n">>

WebhookEventKeys == {IdKey, TypeKey, DataKey, TimestampKey, VersionKey}

\* {"id":"evt_1","type":"tier.completed","data":{},"timestamp":"t0","version":"1"}
ValidEventPayload ==
  JsonObject(<<
    JsonMember(IdKey, JsonString(<<"e", "v", "t", "_", "1">>)),
    JsonMember(TypeKey, JsonString(<<"t", "i", "e", "r", ".", "c", "o", "m",
                                     "p", "l", "e", "t", "e", "d">>)),
    JsonMember(DataKey, JsonObject(<<>>)),
    JsonMember(TimestampKey, JsonString(<<"t", "0">>)),
    JsonMember(VersionKey, JsonString(<<"1">>)) >>)

\* {"id":"evt_1"}: decodable, but not a whole WebhookEvent
PartialEventPayload ==
  JsonObject(<< JsonMember(IdKey, JsonString(<<"e", "v", "t", "_", "1">>)) >>)

\* 1: decodable, not an object
NumberPayload == <<"1">>

\* not-json
NotJsonPayload == <<"n", "o", "t", "-", "j", "s", "o", "n">>

\* a body of no bytes
EmptyPayload == <<>>

BasePayloadSeq ==
  <<ValidEventPayload, PartialEventPayload, NumberPayload, NotJsonPayload, EmptyPayload>>

BasePayloads == {BasePayloadSeq[n] : n \in 1 .. Len(BasePayloadSeq)}

\* the characters a tampering caller writes over a byte or character
TamperCharSeq == <<"x", "0">>

TamperChars == {TamperCharSeq[n] : n \in 1 .. Len(TamperCharSeq)}

\* s with the character at position pos (from 1) replaced by ch
ReplaceAt(s, pos, ch) == [s EXCEPT ![pos] = ch]

MaxPayloadLen == Len(ValidEventPayload)

\* The numbers of the byte strings the model can present as a payload: a
\* base payload, or a base payload with one byte overwritten.
PayloadCodes(payload) ==
  {n - 1 : n \in {m \in 1 .. Len(BasePayloadSeq) : BasePayloadSeq[m] = payload}}
  \cup
  UNION {
    LET base == BasePayloadSeq[n]
        diff == {pos \in 1 .. Len(base) : base[pos] # payload[pos]}
    IN IF Cardinality(diff) # 1 THEN {}
       ELSE LET pos == CHOOSE q \in diff : TRUE
            IN {Len(BasePayloadSeq)
                  + ((n - 1) * MaxPayloadLen + (pos - 1)) * Len(TamperCharSeq) + (c - 1) :
                c \in {d \in 1 .. Len(TamperCharSeq) : TamperCharSeq[d] = payload[pos]}}
    : n \in {m \in 1 .. Len(BasePayloadSeq) : Len(BasePayloadSeq[m]) = Len(payload)}}

\* the least of them: one number per byte string
PayloadCode(payload) ==
  CHOOSE n \in PayloadCodes(payload) : \A m \in PayloadCodes(payload) : n <= m

PayloadCodeCount ==
  Len(BasePayloadSeq) + Len(BasePayloadSeq) * MaxPayloadLen * Len(TamperCharSeq)

SecretKeys == <<"whsec_test", "whsec_other">>

----------------------------------------------------------------------------
(* WebhooksService.verifySignature and safeCompare *)

\* number of hex characters of a digest in the model (64 for SHA-256)
DigestHexLen == 3

RECURSIVE ToHex(_, _)
\* n as width lowercase hex digits
ToHex(n, width) ==
  IF width = 0 THEN <<>>
  ELSE ToHex(n \div 16, width - 1) \o <<HexDigits[(n % 16) + 1]>>

\* a collision-free numbering of (key, message) pairs
DigestIndex(secret, payload) ==
  LET k == CHOOSE n \in 1 .. Len(SecretKeys) : SecretKeys[n] = secret
  IN (k - 1) * PayloadCodeCount + PayloadCode(payload)

\* createHmac('sha256', secret).update(payload).digest('hex'): a fixed-width
\* lowercase hex string, a function of the key and the exact bytes, taken
\* to be collision-free
HmacSha256Hex(secret, payload) == ToHex(DigestIndex(secret, payload), DigestHexLen)

Sha256Prefix == <<"s", "h", "a", "2", "5", "6", "=">>

RECURSIVE SafeCompareLoopAssign(_, _, _, _)
\* the loop with = in place of |=
SafeCompareLoopAssign(a, b, i, result) ==
  IF i < Len(a)
  THEN SafeCompareLoopAssign(a, b, i + 1, BitXor(CharCodeAt(a, i), CharCodeAt(b, i)))
  ELSE [result |-> result, iterations |-> i]

RECURSIVE SafeCompareLoopEarlyExit(_, _, _, _)
\* a loop that stops at the first differing character
SafeCompareLoopEarlyExit(a, b, i, result) ==
  IF i < Len(a) /\ result = 0
  THEN SafeCompareLoopEarlyExit(a, b, i + 1,
                                BitOr(result, BitXor(CharCodeAt(a, i), CharCodeAt(b, i))))
  ELSE [result |-> result, iterations |-> i]

RECURSIVE SafeCompareLoop(_, _, _, _)
\* for (let i = 0; i < a.length; i++) result |= a.charCodeAt(i) ^ b.charCodeAt(i)
\* from index i with accumulator result; yields the final accumulator and i
SafeCompareLoop(a, b, i, result) ==
  IF i < Len(a)
  THEN SafeCompareLoop(a, b, i + 1,
                       BitOr(result, BitXor(CharCodeAt(a, i), CharCodeAt(b, i))))
  ELSE [result |-> result, iterations |-> i]

\* safeCompare without its length check: the loop runs over a alone
safeCompareNoLengthCheck(a, b) ==
  \A i \in 0 .. Len(a) - 1 : i < Len(b) /\ CharCodeAt(a, i) = CharCodeAt(b, i)

safeCompare(a, b) ==
  IF Len(a) # Len(b)
  THEN FALSE
  ELSE SafeCompareLoop(a, b, 0, 0).result = 0

\* how many times the loop body of safeCompare(a, b) runs
SafeCompareIterations(a, b) ==
  IF Len(a) # Len(b) THEN 0 ELSE SafeCompareLoop(a, b, 0, 0).iterations

XRPLSaleError(message) == [name |-> "XRPLSaleError", message |-> message]

SecretRequiredMessage == "Webhook secret is required for signature verification"

\* this.webhookSecret || secret
SecretToUseConfiguredFirst(secret, configured) ==
  IF Falsy(configured) THEN secret ELSE configured

\* secret || this.webhookSecret
SecretToUse(secret, configured) == IF Falsy(secret) THEN configured ELSE secret

\* a verifySignature that answers false when it has no secret
verifySignatureNoThrow(payload, signature, secret, configured) ==
  IF Falsy(secret) /\ Falsy(configured)
  THEN [t |-> "return", value |-> FALSE, iterations |-> 0, trace |-> <<>>]
  ELSE LET secretToUse == SecretToUse(secret, configured)
           expectedSignature == HmacSha256Hex(secretToUse, payload)
       IN [t |-> "return",
           value |-> safeCompare(Sha256Prefix \o expectedSignature, signature),
           iterations |-> SafeCompareIterations(Sha256Prefix \o expectedSignature,
                                                signature),
           trace |-> <<"createHmac", "safeCompare">>]

\* verifySignature(payload, signature, secret) on a service whose
\* webhookSecret is configured: what it returns or throws, and the
\* operations it performed on the way
verifySignature(payload, signature, secret, configured) ==
  IF Falsy(secret) /\ Falsy(configured)
  THEN [t |-> "throw", error |-> XRPLSaleError(SecretRequiredMessage), trace |-> <<>>]
  ELSE LET secretToUse == SecretToUse(secret, configured)
           expectedSignature == HmacSha256Hex(secretToUse, payload)
       IN [t |-> "return",
           value |-> safeCompare(Sha256Prefix \o expectedSignature, signature),
           iterations |-> SafeCompareIterations(Sha256Prefix \o expectedSignature,
                                                signature),
           trace |-> <<"createHmac", "safeCompare">>]

\* 'sha256=' + hex(HMAC-SHA256(secret, payload)), as the sender computes it
Sign(payload, secret) == Sha256Prefix \o HmacSha256Hex(secret, payload)

SecretArgs == {Absent, ""} \cup {SecretKeys[n] : n \in 1 .. Len(SecretKeys)}

ConfiguredSecrets == {Absent, ""} \cup {SecretKeys[n] : n \in 1 .. Len(SecretKeys)}

\* signatures a caller may present for payload p
SignatureChoices(p) ==
  LET good == {Sign(p, SecretKeys[n]) : n \in 1 .. Len(SecretKeys)}
  IN good
     \cup {SubSeq(g, 1, Len(g) - 1) : g \in good}
     \cup {g \o <<"0">> : g \in good}
     \cup {<<>>, Sha256Prefix}

\* the longest signature of SignatureChoices
MaxSignatureLen == Len(Sha256Prefix) + DigestHexLen + 1

NoCall == [t |-> "none"]

VerifyRecord(payload, signature, secret, tampered) ==
  [t |-> "verifySignature", payload |-> payload, signature |-> signature,
   secret |-> secret, tampered |-> tampered,
   outcome |-> verifySignature(payload, signature, secret, webhookSecret)]

\* a verifySignature that keeps the per-call secret as the new default
VerifyCallStoringSecret(payload, signature, secret) ==
  /\ prevVerifyCall.t = "none"
  /\ verifyCall' = VerifyRecord(payload, signature, secret, FALSE)
  /\ prevVerifyCall' = NoCall
  /\ webhookSecret' = IF Falsy(secret) THEN webhookSecret ELSE secret
  /\ UNCHANGED <<mwVars, parseCall, retryVars>>

\* a caller calls verifySignature(payload, signature, secret); a run of the
\* model ends with the call derived from it (repeated or tampered)
VerifyCall(payload, signature, secret) ==
  /\ prevVerifyCall.t = "none"
  /\ verifyCall' = VerifyRecord(payload, signature, secret, FALSE)
  /\ prevVerifyCall' = NoCall
  /\ UNCHANGED <<webhookSecret, mwVars, parseCall, retryVars>>

\* the caller repeats the latest call with the same arguments
VerifyRepeat ==
  /\ verifyCall.t = "verifySignature"
  /\ prevVerifyCall.t = "none"
  /\ verifyCall' = VerifyRecord(verifyCall.payload, verifyCall.signature,
                                verifyCall.secret, verifyCall.tampered)
  /\ prevVerifyCall' = verifyCall
  /\ UNCHANGED <<webhookSecret, mwVars, parseCall, retryVars>>

\* the latest call is made again with one byte of the payload changed
VerifyTamperedPayload(pos, ch) ==
  /\ verifyCall.t = "verifySignature"
  /\ ~verifyCall.tampered
  /\ prevVerifyCall.t = "none"
  /\ pos \in 1 .. Len(verifyCall.payload)
  /\ verifyCall.payload[pos] # ch
  /\ verifyCall' = VerifyRecord(ReplaceAt(verifyCall.payload, pos, ch),
                                verifyCall.signature, verifyCall.secret, TRUE)
  /\ prevVerifyCall' = verifyCall
  /\ UNCHANGED <<webhookSecret, mwVars, parseCall, retryVars>>

\* the latest call is made again with one character of the signature changed
VerifyTamperedSignature(pos, ch) ==
  /\ verifyCall.t = "verifySignature"
  /\ ~verifyCall.tampered
  /\ prevVerifyCall.t = "none"
  /\ pos \in 1 .. Len(verifyCall.signature)
  /\ verifyCall.signature[pos] # ch
  /\ verifyCall' = VerifyRecord(verifyCall.payload,
                                ReplaceAt(verifyCall.signature, pos, ch),
                                verifyCall.secret, TRUE)
  /\ prevVerifyCall' = verifyCall
  /\ UNCHANGED <<webhookSecret, mwVars, parseCall, retryVars>>

----------------------------------------------------------------------------
(* WebhooksService.parseWebhook *)

Digits == {"0", "1", "2", "3", "4", "5", "6", "7", "8", "9"}

ParseFail == [ok |-> FALSE]

RECURSIVE SkipWhitespace(_, _)
\* the first position at or after p that holds no space
SkipWhitespace(s, p) ==
  IF p <= Len(s) /\ s[p] = " " THEN SkipWhitespace(s, p + 1) ELSE p

RECURSIVE StringEnd(_, _)
\* the position of the first quote at or after p, 0 when there is none
StringEnd(s, p) ==
  IF p > Len(s) THEN 0
  ELSE IF s[p] = Quote THEN p
  ELSE StringEnd(s, p + 1)

\* a JSON string starting at the quote at p
ParseString(s, p) ==
  LET q == StringEnd(s, p + 1)
  IN IF q = 0 THEN ParseFail
     ELSE [ok |-> TRUE,
           val |-> [t |-> "string", chars |-> SubSeq(s, p + 1, q - 1)],
           pos |-> q + 1]

RECURSIVE DigitsEnd(_, _)
DigitsEnd(s, p) ==
  IF p <= Len(s) /\ s[p] \in Digits THEN DigitsEnd(s, p + 1) ELSE p

\* a JSON integer starting at the digit at p (no leading zero)
ParseNumber(s, p) ==
  LET q == DigitsEnd(s, p)
  IN IF s[p] = "0" /\ q > p + 1 THEN ParseFail
     ELSE [ok |-> TRUE,
           val |-> [t |-> "number", digits |-> SubSeq(s, p, q - 1)],
           pos |-> q]

RECURSIVE ParseValue(_, _)
RECURSIVE ParseMembers(_, _, _)

\* a JSON value starting at or after p0: object, string, integer or null
ParseValue(s, p0) ==
  LET p == SkipWhitespace(s, p0)
  IN IF p > Len(s) THEN ParseFail
     ELSE IF s[p] = "{"
       THEN LET q == SkipWhitespace(s, p + 1)
            IN IF q <= Len(s) /\ s[q] = "}"
               THEN [ok |-> TRUE, val |-> [t |-> "object", fields |-> <<>>], pos |-> q + 1]
               ELSE ParseMembers(s, q, <<>>)
     ELSE IF s[p] = Quote THEN ParseString(s, p)
     ELSE IF s[p] \in Digits THEN ParseNumber(s, p)
     ELSE IF p + 3 <= Len(s) /\ SubSeq(s, p, p + 3) = <<"n", "u", "l", "l">>
       THEN [ok |-> TRUE, val |-> [t |-> "null"], pos |-> p + 4]
     ELSE ParseFail

\* the members of an object from p0 on, up to and including the closing
\* brace; a repeated key keeps its last value
ParseMembers(s, p0, fields) ==
  LET p == SkipWhitespace(s, p0)
  IN IF p > Len(s) \/ s[p] # Quote THEN ParseFail
     ELSE LET k == ParseString(s, p)
          IN IF ~k.ok THEN ParseFail
             ELSE LET c == SkipWhitespace(s, k.pos)
                  IN IF c > Len(s) \/ s[c] # ":" THEN ParseFail
                     ELSE LET v == ParseValue(s, c + 1)
                          IN IF ~v.ok THEN ParseFail
                             ELSE LET e == SkipWhitespace(s, v.pos)
                                      more == (k.val.chars :> v.val) @@ fields
                                  IN IF e > Len(s) THEN ParseFail
                                     ELSE IF s[e] = "}"
                                       THEN [ok |-> TRUE,
                                             val |-> [t |-> "object", fields |-> more],
                                             pos |-> e + 1]
                                     ELSE IF s[e] = ","
                                       THEN ParseMembers(s, e + 1, more)
                                     ELSE ParseFail

\* JSON.parse(text): the value, or a SyntaxError
JsonParse(text) ==
  LET r == ParseValue(text, 1)
  IN IF r.ok /\ SkipWhitespace(text, r.pos) = Len(text) + 1
     THEN [ok |-> TRUE, val |-> r.val]
     ELSE ParseFail

\* a Buffer holding the given bytes
Buffer(bytes) == [t |-> "buffer", bytes |-> bytes]

\* payload.toString(): the text of a Buffer of ASCII bytes
BufferToString(payload) == payload.bytes

InvalidPayloadMessage == "Invalid webhook payload"

\* a parseWebhook whose catch block swallows the error
parseWebhookLenient(payload) ==
  LET parsed == JsonParse(BufferToString(payload))
  IN IF parsed.ok
     THEN [t |-> "return", value |-> parsed.val]
     ELSE [t |-> "return", value |-> [t |-> "null"]]

\* parseWebhook(payload) for a Buffer payload: the parsed value, or
\* XRPLSaleError('Invalid webhook payload')
parseWebhook(payload) ==
  LET parsed == JsonParse(BufferToString(payload))
  IN IF parsed.ok
     THEN [t |-> "return", value |-> parsed.val]
     ELSE [t |-> "throw", error |-> XRPLSaleError(InvalidPayloadMessage)]

----------------------------------------------------------------------------
(* WebhooksService.middleware *)

SignatureHeader == "x-xrpl-sale-signature"

\* options?.secret; an omitted options argument behaves as {}
OptionSecret(options) ==
  IF "secret" \in DOMAIN options THEN options.secret ELSE Absent

\* verification only when asked for
VerificationEnabledAlways(options) == TRUE

VerificationEnabledOptIn(options) ==
  "verifySignature" \in DOMAIN options /\ options.verifySignature = TRUE

\* options?.verifySignature !== false
VerificationEnabled(options) ==
  ~("verifySignature" \in DOMAIN options /\ options.verifySignature = FALSE)

HasSignatureHeader(request) == SignatureHeader \in DOMAIN request.headers

\* !signature: no such header, or an empty one
MissingSignature(request) ==
  \/ ~HasSignatureHeader(request)
  \/ request.headers[SignatureHeader] = <<>>

\* res.json({ error }) without res.status(...): the default status
ResponseDefaultStatus(status, error) == [status |-> 200, json |-> [error |-> error]]

\* res.status(status).json({ error })
Response(status, error) == [status |-> status, json |-> [error |-> error]]

MissingSignatureMessage == "Missing signature header"

InvalidSignatureMessage == "Invalid signature"

SignatureRejectedInverted(verified) == verified.value

\* if (!this.verifySignature(...))
SignatureRejected(verified) == ~verified.value

AttachEventOnly(request, event) ==
  [headers |-> request.headers, body |-> request.body, webhookEvent |-> event]

\* req.webhookEvent = event; req.body = event
AttachEvent(request, event) ==
  [headers |-> request.headers, body |-> event, webhookEvent |-> event]

GenericFailureMessage == "Webhook processing failed"

\* a handler without the try/catch: the error propagates to the host
Uncaught(stopped, error, performed) ==
  [stopped EXCEPT !.escaped = <<error>>, !.trace = performed]

\* a catch block that does not pass on the error's message
CaughtGeneric(stopped, error, performed) ==
  [stopped EXCEPT !.res = <<Response(400, GenericFailureMessage)>>,
                  !.trace = performed]

\* the catch block, for an error that is an Error: res.status(400).json({
\* error: error.message }); stopped is the outcome with nothing sent yet,
\* performed the operations run before the throw
Caught(stopped, error, performed) ==
  [stopped EXCEPT !.res = <<Response(400, error.message)>>,
                  !.trace = performed]

\* The handler middleware(options) returns, run on a request of a service
\* whose webhookSecret is configured: the request object afterwards, what
\* was sent on res, the calls of next, and the operations performed.
middleware(options, configured, request) ==
  LET rawBody == request.body
      enabled == VerificationEnabled(options)
      stopped == [req |-> request, res |-> <<>>, next |-> 0, trace |-> <<>>,
                  escaped |-> <<>>]
  IN IF enabled /\ MissingSignature(request)
     THEN [stopped EXCEPT !.res = <<Response(401, MissingSignatureMessage)>>]
     ELSE
       LET verified ==
             IF enabled
             THEN verifySignature(rawBody.bytes, request.headers[SignatureHeader],
                                  OptionSecret(options), configured)
             ELSE [t |-> "skipped", trace |-> <<>>]
           verifyTrace ==
             IF enabled THEN <<"verifySignature">> \o verified.trace ELSE <<>>
       IN IF verified.t = "throw"
          THEN Caught(stopped, verified.error, verifyTrace)
          ELSE IF verified.t = "return" /\ SignatureRejected(verified)
          THEN [stopped EXCEPT !.res = <<Response(401, InvalidSignatureMessage)>>,
                               !.trace = verifyTrace]
          ELSE
            LET event == parseWebhook(rawBody)
            IN IF event.t = "throw"
               THEN Caught(stopped, event.error, verifyTrace \o <<"parseWebhook">>)
               ELSE [req |-> AttachEvent(request, event.value),
                     res |-> <<>>,
                     next |-> 1,
                     trace |-> verifyTrace \o <<"parseWebhook", "next">>,
                     escaped |-> <<>>]

NoRequest == [none |-> TRUE]

NoOptions == <<>>

\* the option objects middleware() is created with
OptionChoices ==
  {NoOptions}
  \cup {[secret |-> s] : s \in SecretArgs \ {Absent}}
  \cup {[verifySignature |-> v] : v \in BOOLEAN}
  \cup {[secret |-> s, verifySignature |-> v] : s \in SecretArgs \ {Absent}, v \in BOOLEAN}

\* the header sets of the requests the model sends
HeaderChoices(body) ==
  {<<>>} \cup {(SignatureHeader :> sig) : sig \in SignatureChoices(body)}

\* middleware(options) is called and the handler it returns is mounted
CreateMiddleware(options) ==
  /\ mwOptions' = options
  /\ received' = NoRequest
  /\ req' = NoRequest
  /\ res' = <<>>
  /\ nextCalls' = 0
  /\ trace' = <<>>
  /\ escaped' = <<>>
  /\ UNCHANGED <<webhookSecret, verifyVars, parseCall, retryVars>>

\* the host passes a request with a raw body to the mounted handler
HandleRequest(body, headers) ==
  \E request \in {[headers |-> headers, body |-> Buffer(body)]} :
  \E out \in {middleware(mwOptions, webhookSecret, request)} :
     /\ received' = request
     /\ req' = out.req
     /\ res' = out.res
     /\ nextCalls' = out.next
     /\ trace' = out.trace
     /\ escaped' = out.escaped
     /\ UNCHANGED <<mwOptions, webhookSecret, verifyVars, parseCall, retryVars>>

----------------------------------------------------------------------------
(* Specifications *)

InitMiddlewareIdle ==
  /\ mwOptions = NoOptions
  /\ received = NoRequest
  /\ req = NoRequest
  /\ res = <<>>
  /\ nextCalls = 0
  /\ trace = <<>>
  /\ escaped = <<>>

InitWebhookIdle ==
  /\ webhookSecret = Absent
  /\ verifyCall = NoCall
  /\ prevVerifyCall = NoCall
  /\ parseCall = NoCall
  /\ InitMiddlewareIdle

InitRetryIdle ==
  /\ call = [c \in Calls |-> IdleCall]
  /\ timers = [c \in Calls |-> NoTimer]
  /\ now = 0
  /\ fnLog = [c \in Calls |-> <<>>]
  /\ attempts = [c \in Calls |-> <<>>]
  /\ waits = [c \in Calls |-> <<>>]

InitRetry == InitRetryIdle /\ InitWebhookIdle

StartCall(c) ==
  \E m \in MaxRetriesChoices, d \in DelayChoices, b \in BackoffChoices :
    Start(c, m, d, b)

FnResolves(c) == \E v \in Values : FnResolve(c, v)

FnRejects(c) == \E k \in ErrorKinds : FnReject(c, k)

\* a single withRetry call
NextRetry ==
  \/ StartCall("A")
  \/ FnResolves("A")
  \/ FnRejects("A")
  \/ TimerFire("A")
  \/ AdvanceClock

SpecRetry == InitRetry /\ [][NextRetry]_vars

\* a single withRetry call whose fn() invocations each settle and whose
\* timers each fire: the event loop runs every ready continuation and the
\* clock reaches every due time
SpecRetryFair ==
  /\ InitRetry
  /\ [][NextRetry]_vars
  /\ WF_vars(FnResolves("A") \/ FnRejects("A"))
  /\ WF_vars(TimerFire("A"))
  /\ WF_vars(AdvanceClock)

\* the arguments of the concurrently running calls
ConcurrentMaxRetries == 2
ConcurrentMaxRetriesChoices == 0 .. ConcurrentMaxRetries

StartConcurrent(c) ==
  \E m \in ConcurrentMaxRetriesChoices, b \in BackoffChoices :
    Start(c, m, DefaultDelay, b)

\* two withRetry calls in flight on the same event loop
NextConcurrent ==
  \/ \E c \in Calls : StartConcurrent(c)
  \/ \E c \in Calls : FnResolves(c)
  \/ \E c \in Calls : FnRejects(c)
  \/ \E c \in Calls : TimerFire(c)
  \/ AdvanceClock

SpecConcurrent == InitRetry /\ [][NextConcurrent]_vars

\* new WebhooksService(httpClient, webhookSecret), then direct calls of
\* verifySignature
InitVerify ==
  /\ InitRetryIdle
  /\ InitMiddlewareIdle
  /\ webhookSecret \in ConfiguredSecrets
  /\ verifyCall = NoCall
  /\ prevVerifyCall = NoCall
  /\ parseCall = NoCall

VerifyCalls ==
  \E p \in BasePayloads, s \in SecretArgs :
    \E sig \in SignatureChoices(p) : VerifyCall(p, sig, s)

VerifyTamperedPayloads ==
  \E pos \in 1 .. MaxPayloadLen, ch \in TamperChars :
    VerifyTamperedPayload(pos, ch)

VerifyTamperedSignatures ==
  \E pos \in 1 .. MaxSignatureLen, ch \in TamperChars :
    VerifyTamperedSignature(pos, ch)

NextVerify ==
  \/ VerifyCalls
  \/ VerifyRepeat
  \/ VerifyTamperedPayloads
  \/ VerifyTamperedSignatures

SpecVerify == InitVerify /\ [][NextVerify]_vars

\* new WebhooksService(httpClient, webhookSecret), middleware() mounted,
\* then requests
InitWebhook ==
  /\ InitRetryIdle
  /\ InitMiddlewareIdle
  /\ webhookSecret \in ConfiguredSecrets
  /\ verifyCall = NoCall
  /\ prevVerifyCall = NoCall
  /\ parseCall = NoCall

CreateMiddlewares == \E options \in OptionChoices : CreateMiddleware(options)

HandleRequests ==
  \E body \in BasePayloads :
    \E headers \in HeaderChoices(body) : HandleRequest(body, headers)

NextWebhook ==
  \/ CreateMiddlewares
  \/ HandleRequests

SpecWebhook == InitWebhook /\ [][NextWebhook]_vars

----------------------------------------------------------------------------
(* Properties of RetryUtils.withRetry *)

Last(s) == s[Len(s)]

AllFailed(c) == \A j \in 1 .. Len(fnLog[c]) : fnLog[c][j].t = "err"

Started(c) == call[c].pc # "idle"

\* C1: with maxRetries N >= 0 and an operation that fails on every
\* invocation, withRetry invokes fn exactly N+1 times and then rejects with
\* the very error object the last invocation threw.
C1_RetryExhaustion ==
  \A c \in Calls :
    (Started(c) /\ call[c].maxRetries >= 0 /\ AllFailed(c)) =>
      LET N == call[c].maxRetries
      IN /\ Len(attempts[c]) <= N + 1
         /\ (call[c].pc = "rejected") <=> (Len(fnLog[c]) = N + 1)
         /\ call[c].pc = "rejected" =>
              /\ Len(attempts[c]) = N + 1
              /\ call[c].outcome = [t |-> "rejected", error |-> fnLog[c][N + 1].error]
              /\ call[c].outcome.error.id = N + 1
         /\ call[c].pc # "resolved"

C1_Witness ==
  /\ call["A"].pc = "rejected"
  /\ call["A"].maxRetries = DefaultMaxRetries
  /\ Len(fnLog["A"]) = DefaultMaxRetries + 1
  /\ call["A"].outcome.error = fnLog["A"][DefaultMaxRetries + 1].error

\* C2: when fn fails on its first k invocations and succeeds on invocation
\* k+1 (k <= maxRetries), withRetry returns that invocation's value, has
\* invoked fn exactly k+1 times, has made exactly k backoff waits, and never
\* invokes fn again.
C2_RetrySuccessPath ==
  \A c \in Calls :
    (\E j \in 1 .. Len(fnLog[c]) : fnLog[c][j].t = "ok") =>
      LET k == Len(fnLog[c]) - 1
      IN /\ \A j \in 1 .. k : fnLog[c][j].t = "err"
         /\ Last(fnLog[c]).t = "ok"
         /\ k <= call[c].maxRetries
         /\ call[c].pc = "resolved"
         /\ call[c].outcome = [t |-> "resolved", value |-> Last(fnLog[c]).value]
         /\ Len(attempts[c]) = k + 1
         /\ Len(waits[c]) = k
         /\ timers[c] = NoTimer

C2_Witness ==
  /\ call["A"].pc = "resolved"
  /\ call["A"].maxRetries = DefaultMaxRetries
  /\ Len(fnLog["A"]) = 3
  /\ Len(waits["A"]) = 2
  /\ call["A"].outcome.value = "v2"

ExpectedDefaultWaits == <<1000, 2000, 4000, 8000, 16000, 32000>>

\* C3: the wait scheduled after the failure of attempt i (0-indexed,
\* i < maxRetries) is delay * backoff^i (1000, 2000, 4000, ... for delay 1000
\* and backoff 2); attempt i+1 starts only once wait i has elapsed; no wait
\* is scheduled after the final failed attempt.
C3_BackoffLaw ==
  \A c \in Calls :
    Started(c) =>
      /\ \A j \in 1 .. Len(waits[c]) :
           /\ j <= Len(fnLog[c]) /\ fnLog[c][j].t = "err"
           /\ j - 1 < call[c].maxRetries
           /\ waits[c][j].ms = call[c].delay * Pow(call[c].backoff, j - 1)
           /\ (call[c].delay = 1000 /\ call[c].backoff = 2) =>
                waits[c][j].ms = ExpectedDefaultWaits[j]
           /\ Len(attempts[c]) >= j + 1 =>
                attempts[c][j + 1] >= waits[c][j].at + waits[c][j].ms
           /\ waits[c][j].at = attempts[c][j]
      /\ \A j \in 1 .. Len(fnLog[c]) :
           (fnLog[c][j].t = "err" /\ j - 1 < call[c].maxRetries) => Len(waits[c]) >= j
      /\ (call[c].pc = "rejected" /\ call[c].maxRetries >= 0) =>
           /\ Len(waits[c]) = call[c].maxRetries
           /\ Len(waits[c]) = Len(fnLog[c]) - 1
           /\ timers[c] = NoTimer

C3_Witness ==
  /\ call["A"].pc = "rejected"
  /\ call["A"].delay = 1000 /\ call["A"].backoff = 2
  /\ Len(waits["A"]) = 3
  /\ waits["A"][3].ms = 4000
  /\ attempts["A"][4] = 7000

----------------------------------------------------------------------------
(* Properties of WebhooksService.verifySignature *)

IsVerify(r) == r.t = "verifySignature"

SameArguments(r1, r2) ==
  /\ r1.payload = r2.payload
  /\ r1.signature = r2.signature
  /\ r1.secret = r2.secret

\* a and b have the same length and differ at exactly one position
SingleChange(a, b) ==
  /\ Len(a) = Len(b)
  /\ Cardinality({i \in 1 .. Len(a) : a[i] # b[i]}) = 1

Returned(r, value) == r.outcome.t = "return" /\ r.outcome.value = value

\* C8: for every payload and every non-empty secret, verifySignature(payload,
\* 'sha256=' + hex(HMAC-SHA256(secret, payload)), secret) returns true, and a
\* repeated call with the same arguments gives the same result.
C8_SignThenVerify ==
  /\ (IsVerify(verifyCall) /\ ~Falsy(verifyCall.secret)
        /\ verifyCall.signature = Sign(verifyCall.payload, verifyCall.secret))
       => Returned(verifyCall, TRUE)
  /\ (IsVerify(verifyCall) /\ IsVerify(prevVerifyCall)
        /\ SameArguments(verifyCall, prevVerifyCall))
       => verifyCall.outcome = prevVerifyCall.outcome

C8_Witness ==
  /\ IsVerify(verifyCall) /\ IsVerify(prevVerifyCall)
  /\ SameArguments(verifyCall, prevVerifyCall)
  /\ webhookSecret = "whsec_other"
  /\ verifyCall.secret = "whsec_test"
  /\ verifyCall.payload = ValidEventPayload
  /\ verifyCall.signature = Sign(ValidEventPayload, "whsec_test")
  /\ Returned(verifyCall, TRUE)

\* C9: from a payload/signature pair that verifySignature accepts under a
\* secret, changing any single byte of the payload or any single character of
\* the signature makes verifySignature return false under the same secret.
C9_TamperSensitivity ==
  (/\ IsVerify(verifyCall) /\ IsVerify(prevVerifyCall)
   /\ Returned(prevVerifyCall, TRUE)
   /\ verifyCall.secret = prevVerifyCall.secret
   /\ \/ /\ SingleChange(verifyCall.payload, prevVerifyCall.payload)
         /\ verifyCall.signature = prevVerifyCall.signature
      \/ /\ SingleChange(verifyCall.signature, prevVerifyCall.signature)
         /\ verifyCall.payload = prevVerifyCall.payload)
  => Returned(verifyCall, FALSE)

C9_Witness ==
  /\ IsVerify(verifyCall) /\ IsVerify(prevVerifyCall)
  /\ Returned(prevVerifyCall, TRUE)
  /\ prevVerifyCall.payload = ValidEventPayload
  /\ verifyCall.signature = prevVerifyCall.signature
  /\ SingleChange(verifyCall.payload, prevVerifyCall.payload)
  /\ verifyCall.payload[1] = "{"
  /\ Returned(verifyCall, FALSE)

C9_WitnessSignature ==
  /\ IsVerify(verifyCall) /\ IsVerify(prevVerifyCall)
  /\ Returned(prevVerifyCall, TRUE)
  /\ verifyCall.payload = prevVerifyCall.payload
  /\ SingleChange(verifyCall.signature, prevVerifyCall.signature)
  /\ verifyCall.signature[1] = "x"
  /\ Returned(verifyCall, FALSE)

\* C10: whenever a secret is available, verifySignature returns false for
\* every signature whose length differs from that of the computed
\* 'sha256=<hex>' string: the empty string and extensions of the correct
\* signature included.
C10_LengthMismatch ==
  (/\ IsVerify(verifyCall)
   /\ ~(Falsy(verifyCall.secret) /\ Falsy(webhookSecret))
   /\ Len(verifyCall.signature) # Len(Sha256Prefix) + DigestHexLen)
  => Returned(verifyCall, FALSE)

C10_Witness ==
  /\ IsVerify(verifyCall)
  /\ verifyCall.secret = "whsec_test"
  /\ verifyCall.signature = Sign(verifyCall.payload, "whsec_test") \o <<"0">>
  /\ Returned(verifyCall, FALSE)

C10_WitnessEmpty ==
  /\ IsVerify(verifyCall)
  /\ webhookSecret = "whsec_test"
  /\ verifyCall.secret = Absent
  /\ verifyCall.signature = <<>>
  /\ Returned(verifyCall, FALSE)

----------------------------------------------------------------------------
(* Properties of WebhooksService.middleware *)

Handled == "body" \in DOMAIN received

\* the middleware was created without verifySignature: false
VerifyOptionNotFalse ==
  \/ "verifySignature" \notin DOMAIN mwOptions
  \/ mwOptions.verifySignature # FALSE

\* the request carried an x-xrpl-sale-signature header
HeaderPresent == "x-xrpl-sale-signature" \in DOMAIN received.headers

RawBytes == received.body.bytes

\* options.secret || this.webhookSecret is a usable secret
SecretAvailable == ~(Falsy(OptionSecret(mwOptions)) /\ Falsy(webhookSecret))

EffectiveSecret ==
  IF Falsy(OptionSecret(mwOptions)) THEN webhookSecret ELSE OptionSecret(mwOptions)

\* the request carried the signature of its raw body under the effective secret
ValidlySigned ==
  /\ HeaderPresent
  /\ SecretAvailable
  /\ received.headers[SignatureHeader] = Sign(RawBytes, EffectiveSecret)

Decodable == JsonParse(RawBytes).ok

EventAttached == "webhookEvent" \in DOMAIN req

RequestUntouched == req = received

Performed(op) == \E n \in 1 .. Len(trace) : trace[n] = op

\* C4: a request whose signature header is 'sha256=' + the HMAC-SHA256 hex of
\* the raw body under the effective secret, and whose body is decodable, gets
\* the parsed event attached (req.webhookEvent and req.body), next is called
\* exactly once, and no rejection is sent.
C4_ValidRequestPasses ==
  (Handled /\ ValidlySigned /\ Decodable) =>
    /\ EventAttached
    /\ req.webhookEvent = JsonParse(RawBytes).val
    /\ req.body = JsonParse(RawBytes).val
    /\ nextCalls = 1
    /\ res = <<>>

C4_Witness ==
  /\ Handled /\ ValidlySigned
  /\ RawBytes = ValidEventPayload
  /\ VerifyOptionNotFalse
  /\ EventAttached
  /\ req.body = req.webhookEvent
  /\ DOMAIN req.body.fields = WebhookEventKeys
  /\ nextCalls = 1
  /\ res = <<>>

\* C5: with verification enabled and no x-xrpl-sale-signature header, the
\* request is rejected 401 with the missing-signature reason, without any
\* verification or parsing; next is not called and no event is attached.
C5_MissingHeaderRejected ==
  (Handled /\ VerifyOptionNotFalse /\ ~HeaderPresent) =>
    /\ res = <<Response(401, "Missing signature header")>>
    /\ trace = <<>>
    /\ nextCalls = 0
    /\ ~EventAttached
    /\ RequestUntouched

C5_Witness ==
  /\ Handled
  /\ mwOptions = NoOptions
  /\ ~HeaderPresent
  /\ RawBytes = ValidEventPayload
  /\ res = <<Response(401, "Missing signature header")>>
  /\ nextCalls = 0

\* C6: with verification enabled and a secret available, a supplied signature
\* that does not match the digest of the raw body is rejected 401 with the
\* invalid-signature reason; verification precedes parsing, so the payload
\* is not parsed, next is not called and no event is attached.
C6_InvalidSignatureRejected ==
  /\ (Handled /\ VerifyOptionNotFalse /\ SecretAvailable
        /\ ~MissingSignature(received)
        /\ received.headers[SignatureHeader] # Sign(RawBytes, EffectiveSecret))
       => /\ res = <<Response(401, "Invalid signature")>>
          /\ Performed("verifySignature")
          /\ ~Performed("parseWebhook")
          /\ nextCalls = 0
          /\ ~EventAttached
          /\ RequestUntouched
  /\ (Handled /\ VerifyOptionNotFalse /\ Performed("parseWebhook"))
       => \E m, n \in 1 .. Len(trace) :
            m < n /\ trace[m] = "verifySignature" /\ trace[n] = "parseWebhook"

C6_Witness ==
  /\ Handled /\ VerifyOptionNotFalse
  /\ webhookSecret = "whsec_test"
  /\ Falsy(OptionSecret(mwOptions))
  /\ RawBytes = ValidEventPayload
  /\ HeaderPresent
  /\ received.headers[SignatureHeader] = Sign(RawBytes, "whsec_other")
  /\ res = <<Response(401, "Invalid signature")>>
  /\ ~Performed("parseWebhook")

\* C7: an undecodable body carried with a signature valid for those exact
\* bytes passes the signature check and fails at parsing: the request is
\* rejected 400 (not 401), next is not called and no event is attached.
C7_MalformedBodyRejected ==
  (Handled /\ ValidlySigned /\ ~Decodable) =>
    /\ Len(res) = 1
    /\ res[1].status = 400
    /\ res[1] = Response(400, "Invalid webhook payload")
    /\ VerifyOptionNotFalse =>
         trace = <<"verifySignature", "createHmac", "safeCompare", "parseWebhook">>
    /\ Performed("parseWebhook")
    /\ nextCalls = 0
    /\ ~EventAttached
    /\ RequestUntouched

C7_Witness ==
  /\ Handled /\ ValidlySigned
  /\ VerifyOptionNotFalse
  /\ RawBytes = NotJsonPayload
  /\ res = <<Response(400, "Invalid webhook payload")>>
  /\ trace = <<"verifySignature", "createHmac", "safeCompare", "parseWebhook">>
  /\ nextCalls = 0

----------------------------------------------------------------------------
(* Further properties of WebhooksService.verifySignature *)

Unavailable(secret) == secret \in {Absent, ""}

\* the secret a call has at its disposal: the per-call one, else the default
UsedSecret(r) == IF Unavailable(r.secret) THEN webhookSecret ELSE r.secret

\* C11: verifySignature fails with an error (it returns neither true nor
\* false) whenever neither a per-call secret nor a configured default is
\* available, and it does so before any digest is computed or compared.
C11_NoSecretThrows ==
  (IsVerify(verifyCall) /\ Unavailable(verifyCall.secret) /\ Unavailable(webhookSecret))
  => /\ verifyCall.outcome.t = "throw"
     /\ verifyCall.outcome.error =
          [name |-> "XRPLSaleError",
           message |-> "Webhook secret is required for signature verification"]
     /\ verifyCall.outcome.trace = <<>>

C11_Witness ==
  /\ IsVerify(verifyCall)
  /\ verifyCall.secret = ""
  /\ webhookSecret = Absent
  /\ verifyCall.signature = Sign(verifyCall.payload, "whsec_test")
  /\ verifyCall.outcome.t = "throw"

\* C15: on strings of equal length safeCompare examines every character
\* position: the loop runs as many times as the strings are long, wherever
\* the first difference lies, and the result is true only if no position
\* differs.
C15_ConstantTimeCompare ==
  (/\ IsVerify(verifyCall)
   /\ verifyCall.outcome.t = "return"
   /\ Len(verifyCall.signature) = Len(Sha256Prefix) + DigestHexLen)
  => LET expected == Sign(verifyCall.payload, UsedSecret(verifyCall))
         differing == {n \in 1 .. Len(expected) : expected[n] # verifyCall.signature[n]}
     IN /\ verifyCall.outcome.iterations = Len(verifyCall.signature)
        /\ verifyCall.outcome.value = (differing = {})

C15_Witness ==
  /\ IsVerify(verifyCall) /\ IsVerify(prevVerifyCall)
  /\ Returned(prevVerifyCall, TRUE)
  /\ verifyCall.payload = prevVerifyCall.payload
  /\ verifyCall.signature[1] = "x"
  /\ verifyCall.signature[2] = "h"
  /\ verifyCall.outcome.iterations = Len(Sha256Prefix) + DigestHexLen
  /\ Returned(verifyCall, FALSE)

----------------------------------------------------------------------------
(* Further properties of WebhooksService.middleware *)

LastPerformed == IF trace = <<>> THEN "none" ELSE trace[Len(trace)]

\* C12 as stated: on every path the middleware writes nothing to the host's
\* response object.
C12_NoResponseWritten == Handled => res = <<>>

\* C12 as amended: the middleware writes nothing to the response object on
\* the success path only; on each rejection path it writes the response
\* itself, exactly one: 401 for a missing header and for an invalid
\* signature, 400 for a failure of verification or of parsing.
C12_ResponseWrittenOnRejection ==
  Handled =>
    /\ Performed("next") <=> res = <<>>
    /\ ~Performed("next") =>
         /\ Len(res) = 1
         /\ LastPerformed = "none" =>
              res[1] = [status |-> 401, json |-> [error |-> "Missing signature header"]]
         /\ LastPerformed = "safeCompare" =>
              res[1] = [status |-> 401, json |-> [error |-> "Invalid signature"]]
         /\ LastPerformed = "verifySignature" =>
              res[1] = [status |-> 400,
                        json |-> [error |-> "Webhook secret is required for signature verification"]]
         /\ LastPerformed = "parseWebhook" =>
              res[1] = [status |-> 400, json |-> [error |-> "Invalid webhook payload"]]
         /\ LastPerformed \in {"none", "safeCompare", "verifySignature", "parseWebhook"}

C12_Witness ==
  /\ Handled
  /\ LastPerformed = "safeCompare"
  /\ res = <<[status |-> 401, json |-> [error |-> "Invalid signature"]]>>
  /\ nextCalls = 0

----------------------------------------------------------------------------
(* Direct calls of WebhooksService.parseWebhook *)

\* a caller calls parseWebhook(payload) with a Buffer of the given bytes
ParseCall(bytes) ==
  /\ parseCall' = [t |-> "parseWebhook", payload |-> bytes,
                   outcome |-> parseWebhook(Buffer(bytes))]
  /\ UNCHANGED <<webhookSecret, verifyVars, mwVars, retryVars>>

\* the payloads parseWebhook is called with: the base payloads and the same
\* with one byte overwritten
ParseCalls ==
  \E p \in BasePayloads, pos \in 0 .. MaxPayloadLen, ch \in TamperChars :
    /\ pos <= Len(p)
    /\ ParseCall(IF pos = 0 THEN p ELSE ReplaceAt(p, pos, ch))

NextParse == ParseCalls

SpecParse == InitWebhook /\ [][NextParse]_vars

\* the value is an object holding every field of WebhookEvent
HasWebhookEventShape(value) ==
  /\ value.t = "object"
  /\ \A key \in WebhookEventKeys : key \in DOMAIN value.fields

\* C13: parseWebhook fails with the malformed-payload error when the payload
\* cannot be decoded and when the decoded value lacks a required field of
\* WebhookEvent; every value it returns has all five fields.
C13_ParseRejectsIncompleteEvents ==
  parseCall.t = "parseWebhook" =>
    /\ ~JsonParse(parseCall.payload).ok =>
         /\ parseCall.outcome.t = "throw"
         /\ parseCall.outcome.error.message = "Invalid webhook payload"
    /\ parseCall.outcome.t = "return" => HasWebhookEventShape(parseCall.outcome.value)

----------------------------------------------------------------------------
(* Termination of withRetry *)

Settled(c) == call[c].pc \in {"resolved", "rejected"}

\* what holds of a call at every moment: never more than maxRetries+1
\* invocations, and the loop ends only on a success or on exhaustion
EndsOnlyBySuccessOrExhaustion(c) ==
  (Started(c) /\ call[c].maxRetries >= 0) =>
    /\ Len(attempts[c]) <= call[c].maxRetries + 1
    /\ call[c].pc = "resolved" =>
         /\ Last(fnLog[c]).t = "ok"
         /\ call[c].outcome.t = "resolved"
    /\ call[c].pc = "rejected" =>
         /\ Len(fnLog[c]) = call[c].maxRetries + 1
         /\ AllFailed(c)
         /\ call[c].outcome.t = "rejected"
    /\ ~Settled(c) =>
         /\ AllFailed(c)
         /\ Len(fnLog[c]) <= call[c].maxRetries

\* C16: a withRetry call with maxRetries >= 0 whose invocations each complete
\* and whose backoff timers each fire eventually settles, in success or in
\* final failure, after at most maxRetries+1 invocations; nothing but a
\* success or the exhaustion of the attempts ends the loop.
C16_RetryTerminates ==
  /\ [] EndsOnlyBySuccessOrExhaustion("A")
  /\ (Started("A") /\ call["A"].maxRetries >= 0) ~> Settled("A")

C16_Witness ==
  /\ call["A"].pc = "resolved"
  /\ call["A"].maxRetries = 2
  /\ Len(attempts["A"]) = 3
  /\ Len(waits["A"]) = 2
  /\ now = waits["A"][2].at + waits["A"][2].ms

----------------------------------------------------------------------------
(* Properties of concurrently running withRetry calls *)

\* the success/failure pattern of the invocations call c has seen so far
Pattern(c) == [j \in 1 .. Len(fnLog[c]) |-> fnLog[c][j].t]

\* the kinds of the errors call c's invocations threw
Kinds(c) ==
  {fnLog[c][j].error.kind : j \in {k \in 1 .. Len(fnLog[c]) : fnLog[c][k].t = "err"}}

\* the durations of the backoff waits call c has scheduled so far
WaitMs(c) == [j \in 1 .. Len(waits[c]) |-> waits[c][j].ms]

IsPrefix(s, t) == Len(s) <= Len(t) /\ \A j \in 1 .. Len(s) : s[j] = t[j]

SameParameters(c, d) ==
  /\ call[c].maxRetries = call[d].maxRetries
  /\ call[c].delay = call[d].delay
  /\ call[c].backoff = call[d].backoff

\* C14: withRetry performs no error classification: two calls with the same
\* arguments whose operations show the same success/failure pattern make the
\* same number of invocations and the same sequence of backoff waits and end
\* the same way, whatever the kinds of the errors thrown; a call that has
\* ended on a pattern is never continued by a call whose operation behaves
\* the same but throws errors of another kind.
C14_NoErrorClassification ==
  \A c, d \in Calls :
    (Started(c) /\ Started(d) /\ SameParameters(c, d)) =>
      /\ Pattern(c) = Pattern(d) =>
           /\ WaitMs(c) = WaitMs(d)
           /\ Settled(c) <=> Settled(d)
           /\ call[c].outcome.t = call[d].outcome.t
      /\ (Settled(c) /\ Settled(d) /\ IsPrefix(Pattern(c), Pattern(d))) =>
           /\ Pattern(c) = Pattern(d)
           /\ Len(attempts[c]) = Len(attempts[d])

C14_Witness ==
  /\ SameParameters("A", "B")
  /\ call["A"].maxRetries = 2 /\ call["A"].backoff = 2
  /\ call["A"].pc = "rejected" /\ call["B"].pc = "rejected"
  /\ Kinds("A") = {"transient"} /\ Kinds("B") = {"permanent"}
  /\ Len(attempts["A"]) = 3 /\ Len(attempts["B"]) = 3
  /\ WaitMs("A") = <<1000, 2000>> /\ WaitMs("B") = <<1000, 2000>>

\* what a withRetry call running alone has done once its fn() invocations
\* have settled as in log: the number of invocations, the waits and the outcome
RECURSIVE SoloRun(_, _, _, _, _, _)
SoloRun(maxRetries, delay, backoff, log, i, ws) ==
  IF ~LoopCondition(i, maxRetries)
  THEN [invocations |-> i, waits |-> ws, pending |-> "none",
        outcome |-> [t |-> "rejected", error |-> Undefined]]
  ELSE IF log = <<>>
  THEN [invocations |-> i + 1, waits |-> ws, pending |-> "fn", outcome |-> Undefined]
  ELSE IF Head(log).t = "ok"
  THEN [invocations |-> i + 1, waits |-> ws, pending |-> "none",
        outcome |-> [t |-> "resolved", value |-> Head(log).value]]
  ELSE IF IsFinalAttempt(i, maxRetries)
  THEN [invocations |-> i + 1, waits |-> ws, pending |-> "none",
        outcome |-> [t |-> "rejected", error |-> Head(log).error]]
  ELSE SoloRun(maxRetries, delay, backoff, Tail(log), i + 1,
               Append(ws, BackoffDelay(delay, backoff, i)))

Alone(c) ==
  SoloRun(call[c].maxRetries, call[c].delay, call[c].backoff, fnLog[c], 0, <<>>)

\* C17: concurrently running withRetry calls do not interfere: under every
\* interleaving of their attempts and waits, each call's invocations, wait
\* sequence, returned value and propagated error are those of the same call
\* running alone with the same arguments and the same operation.
C17_NoInterference ==
  \A c \in Calls :
    Started(c) =>
      /\ WaitMs(c) = Alone(c).waits
      /\ call[c].outcome = Alone(c).outcome
      /\ Len(attempts[c]) =
           IF call[c].pc = "awaitTimer" THEN Alone(c).invocations - 1
           ELSE Alone(c).invocations
      /\ \A j \in 1 .. Len(waits[c]) :
           Len(attempts[c]) > j => attempts[c][j + 1] = waits[c][j].at + waits[c][j].ms

\* both calls are in flight at once with different arguments, and each ends
\* as it would alone
C17_Witness ==
  /\ call["A"].maxRetries = 2 /\ call["A"].backoff = 2
  /\ call["B"].maxRetries = 1 /\ call["B"].backoff = 1
  /\ call["A"].pc = "resolved" /\ call["B"].pc = "rejected"
  /\ WaitMs("A") = <<1000, 2000>> /\ WaitMs("B") = <<1000>>
  /\ attempts["B"][1] > attempts["A"][1]
  /\ attempts["B"][1] < attempts["A"][3]
  /\ call["B"].outcome.error = fnLog["B"][2].error

----------------------------------------------------------------------------
(* Further properties of the handler returned by WebhooksService.middleware *)

\* the middleware was created with verifySignature: false
VerifyOptionFalse ==
  /\ "verifySignature" \in DOMAIN mwOptions
  /\ mwOptions.verifySignature = FALSE

\* C18: a middleware created with verifySignature: false never invokes
\* signature verification and never consults the signature header: whatever
\* header the request carries, or none, a decodable body is passed to next
\* with the parsed event attached, and an undecodable body is rejected 400.
C18_VerificationDisabled ==
  (Handled /\ VerifyOptionFalse) =>
    /\ ~Performed("verifySignature")
    /\ Performed("parseWebhook")
    /\ Decodable =>
         /\ trace = <<"parseWebhook", "next">>
         /\ nextCalls = 1
         /\ res = <<>>
         /\ EventAttached
         /\ req.webhookEvent = JsonParse(RawBytes).val
         /\ req.body = JsonParse(RawBytes).val
         /\ req.headers = received.headers
    /\ ~Decodable =>
         /\ trace = <<"parseWebhook">>
         /\ res = <<[status |-> 400, json |-> [error |-> "Invalid webhook payload"]]>>
         /\ nextCalls = 0
         /\ ~EventAttached
         /\ RequestUntouched

\* a wrongly signed request passes
C18_Witness ==
  /\ Handled /\ VerifyOptionFalse
  /\ webhookSecret = "whsec_test"
  /\ HeaderPresent
  /\ received.headers[SignatureHeader] = Sign(RawBytes, "whsec_other")
  /\ RawBytes = ValidEventPayload
  /\ nextCalls = 1
  /\ EventAttached

C18_WitnessUndecodable ==
  /\ Handled /\ VerifyOptionFalse
  /\ ~HeaderPresent
  /\ RawBytes = NotJsonPayload
  /\ res = <<[status |-> 400, json |-> [error |-> "Invalid webhook payload"]]>>
  /\ nextCalls = 0

\* C19: every handled request has exactly one outcome: next is called exactly
\* once and no rejection is sent, or exactly one rejection (401 or 400) is
\* sent and next is never called; no error thrown by verification or parsing
\* leaves the handler.
C19_ExactlyOneOutcome ==
  Handled =>
    /\ escaped = <<>>
    /\ \/ nextCalls = 1 /\ res = <<>>
       \/ nextCalls = 0 /\ Len(res) = 1 /\ res[1].status \in {400, 401}
    /\ nextCalls = 1 <=> EventAttached

\* parseWebhook threw on a validly signed empty body and the error was mapped
C19_Witness ==
  /\ Handled /\ ValidlySigned
  /\ RawBytes = EmptyPayload
  /\ LastPerformed = "parseWebhook"
  /\ escaped = <<>>
  /\ Len(res) = 1 /\ res[1].status = 400
  /\ nextCalls = 0

\* verification enabled and neither options.secret nor a configured secret
NoSecretAvailable ==
  /\ Handled /\ VerifyOptionNotFalse
  /\ Falsy(OptionSecret(mwOptions)) /\ Falsy(webhookSecret)

\* the request carried a signature header whose value is not the empty string
HeaderNonEmpty == HeaderPresent /\ received.headers["x-xrpl-sale-signature"] # <<>>

\* C20 as stated: with verification enabled and no secret available, a
\* request without a signature header is rejected 401 'Missing signature
\* header' and a request with any signature header is rejected 400 with the
\* missing-secret message; the payload is not parsed and next is not called.
C20_AnyHeaderReachesSecretCheck ==
  NoSecretAvailable =>
    /\ ~HeaderPresent =>
         res = <<[status |-> 401, json |-> [error |-> "Missing signature header"]]>>
    /\ HeaderPresent =>
         res = <<[status |-> 400, json |->
                    [error |-> "Webhook secret is required for signature verification"]]>>
    /\ ~Performed("parseWebhook")
    /\ nextCalls = 0

\* C20: with verification enabled and no secret available, the missing-header
\* check runs before the secret check: a request whose signature header is
\* absent or empty is rejected 401 'Missing signature header' without the
\* secret being looked at, a request with a non-empty signature header is
\* rejected 400 with the missing-secret message; the payload is not parsed
\* and next is not called.
C20_MissingHeaderBeforeSecret ==
  NoSecretAvailable =>
    /\ ~HeaderNonEmpty =>
         /\ res = <<[status |-> 401, json |-> [error |-> "Missing signature header"]]>>
         /\ trace = <<>>
    /\ HeaderNonEmpty =>
         /\ res = <<[status |-> 400, json |->
                       [error |-> "Webhook secret is required for signature verification"]]>>
         /\ trace = <<"verifySignature">>
    /\ ~Performed("parseWebhook")
    /\ nextCalls = 0
    /\ ~EventAttached
    /\ RequestUntouched

C20_Witness ==
  /\ NoSecretAvailable
  /\ webhookSecret = ""
  /\ HeaderNonEmpty
  /\ received.headers[SignatureHeader] = Sign(RawBytes, "whsec_test")
  /\ RawBytes = ValidEventPayload
  /\ res = <<[status |-> 400, json |->
                [error |-> "Webhook secret is required for signature verification"]]>>
  /\ nextCalls = 0

\* an empty signature header with no secret available is reported as missing
C20_WitnessEmptyHeader ==
  /\ NoSecretAvailable
  /\ HeaderPresent /\ ~HeaderNonEmpty
  /\ res = <<[status |-> 401, json |-> [error |-> "Missing signature header"]]>>

----------------------------------------------------------------------------
(* The secret verifySignature uses, and the configured default *)

\* the call was given a non-empty per-call secret
PerCallSecretSupplied(r) == r.secret # "undefined" /\ r.secret # ""

\* what every verifySignature call that returns has returned: the comparison
\* of the signature with the digest under the per-call secret when a
\* non-empty one was supplied, under the configured default otherwise
UsesPerCallSecretElseDefault(r) ==
  (IsVerify(r) /\ r.outcome.t = "return") =>
    /\ PerCallSecretSupplied(r) =>
         r.outcome.value = (r.signature = Sign(r.payload, r.secret))
    /\ ~PerCallSecretSupplied(r) =>
         r.outcome.value = (r.signature = Sign(r.payload, webhookSecret))
    /\ (PerCallSecretSupplied(r) /\ r.secret # webhookSecret
          /\ webhookSecret # "undefined" /\ webhookSecret # ""
          /\ r.signature = Sign(r.payload, webhookSecret)) =>
         r.outcome.value = FALSE

\* C21: verifySignature uses the per-call secret whenever a non-empty one is
\* supplied and the configured default otherwise, so a signature valid only
\* under the configured default is rejected when a different per-call secret
\* is passed; no call modifies the configured default.
C21_SecretPrecedenceAndFrame ==
  /\ [](UsesPerCallSecretElseDefault(verifyCall)
          /\ UsesPerCallSecretElseDefault(prevVerifyCall))
  /\ [][webhookSecret' = webhookSecret]_vars

\* a signature valid under the configured default was presented twice with
\* another per-call secret and rejected both times, the default still in place
C21_Witness ==
  /\ IsVerify(verifyCall) /\ IsVerify(prevVerifyCall)
  /\ SameArguments(verifyCall, prevVerifyCall)
  /\ webhookSecret = "whsec_test"
  /\ verifyCall.secret = "whsec_other"
  /\ verifyCall.payload = ValidEventPayload
  /\ verifyCall.signature = Sign(ValidEventPayload, "whsec_test")
  /\ Returned(verifyCall, FALSE) /\ Returned(prevVerifyCall, FALSE)

====
